---- MODULE Spec2Model ----
(***************************************************************************)
(* Model of flaskr: the application factory (flaskr/__init__.py) and the   *)
(* per-context SQLite connection helper with its init-db command           *)
(* (flaskr/db.py).                                                         *)
(*                                                                         *)
(* The environment is the state the factory and the helper read: the       *)
(* instance directory, the instance config.py, schema.sql and the database *)
(* files.  Application contexts (requests and CLI invocations) are numbered *)
(* 1..MaxCtx in the order they are pushed; each has its own g.             *)
(***************************************************************************)
EXTENDS Integers, Sequences, FiniteSets, TLC

\* ---------------------------------------------------------------- bounds
\* Number of application contexts (requests / CLI invocations) pushed.
MaxCtx == 2
\* Number of get_db / close_db calls a view makes inside one context.
MaxCalls == 3
\* Number of statements in schema.sql.
NStmts == 2

\* ------------------------------------------------------------ vocabulary
Ctxs == 1..MaxCtx
Stmts == 1..NStmts

\* g.pop('db', None) / 'db' not in g: the absent entry.
NoDb == 0

\* os.path.join(app.instance_path, 'flaskr.sqlite')
DefaultDatabase == "instance/flaskr.sqlite"

EmptyMap == [k \in {} |-> ""]

\* str.isupper() on the keys the model uses.
IsUpper(k) == k \in {"SECRET_KEY", "DATABASE", "TESTING"}

\* Config of a fresh Flask(__name__, instance_relative_config=True): the
\* framework's own defaults (one representative key).
FlaskConfig == [k \in {"TESTING"} |-> "False"]

\* A from_mapping that keeps a value already set (dict.setdefault).
from_mapping_setdefault(cfg, m) ==
    LET taken == {k \in DOMAIN m : IsUpper(k)}
    IN  [k \in (DOMAIN cfg) \cup taken |-> IF k \in DOMAIN cfg THEN cfg[k] ELSE m[k]]

\* Config.from_mapping / Config.from_object: only upper-case keys are taken,
\* each replacing the value already there.
from_mapping(cfg, m) ==
    LET taken == {k \in DOMAIN m : IsUpper(k)}
    IN  [k \in (DOMAIN cfg) \cup taken |-> IF k \in taken THEN m[k] ELSE cfg[k]]

\* app.config.from_mapping(SECRET_KEY='dev', DATABASE=...)
Defaults ==
    from_mapping(FlaskConfig,
                 [k \in {"SECRET_KEY", "DATABASE"} |->
                     IF k = "SECRET_KEY" THEN "dev" ELSE DefaultDatabase])

\* ---------------------------------------------------------------- inputs
\* test_config arguments: None, or a mapping over these keys.
TestValue(k) ==
    CASE k = "SECRET_KEY" -> "test-key"
      [] k = "DATABASE"   -> "tmp/test.sqlite"
      [] k = "debug"      -> "1"
      [] OTHER            -> "True"

TestKeys == {"SECRET_KEY", "DATABASE", "debug"}

TestKeySets == {{}, {"SECRET_KEY"}, {"DATABASE", "debug"}, TestKeys}

TestConfigs ==
    {[none |-> TRUE, map |-> EmptyMap]} \cup
    {[none |-> FALSE, map |-> [k \in K |-> TestValue(k)]] : K \in TestKeySets}

\* The instance config.py: absent, a file that assigns these names, or a file
\* that cannot be loaded (syntax error, unreadable).
PyValue(k) == IF k = "SECRET_KEY" THEN "prod-key" ELSE "0"

PyKeys == {"SECRET_KEY", "debug"}

ConfigPyFiles ==
    {[state |-> "absent", map |-> EmptyMap], [state |-> "broken", map |-> EmptyMap]} \cup
    {[state |-> "ok", map |-> [k \in K |-> PyValue(k)]] : K \in {{}, PyKeys}}

\* The instance path before create_app: no such directory (creatable), an
\* existing directory, no such directory under a parent that is not writable,
\* or a path with a regular file as a component.
InstStates == {"absent", "present", "denied", "notdir"}

VARIABLES
    instDir,     \* state of app.instance_path on disk
    instDir0,    \* its state before create_app (history)
    configPy,    \* the instance config.py
    dbFiles,     \* database path -> set of schema statements executed on it
    appState,    \* "none" | "created" | "raised"
    testConfig,  \* the test_config argument create_app was called with
    config,      \* app.config
    pyfileRead,  \* whether from_pyfile opened config.py (history)
    mkdirErr,    \* what os.makedirs raised, "none" if nothing (history)
    nctx,        \* number of application contexts pushed so far
    kind,        \* context -> "hello" | "view" | "cli" ("" before it is pushed)
    pc,          \* context -> "idle" | "run" | "gotdb" | "inited" | "ended" | "done"
    g,           \* context -> g.db: a connection id, NoDb when g has no 'db'
    conns,       \* every connection sqlite3.connect returned, by id (history)
    ret,         \* context -> what the last get_db call returned
    first,       \* context -> what the first get_db call returned (history)
    calls,       \* context -> number of get_db / close_db calls made by its code
    exc,         \* context -> the exception that ended its code, "none" if none
    output,      \* context -> what click.echo printed
    response,    \* context -> the response body, "" if none
    op           \* the last two operations performed, oldest first (history)

appVars == <<instDir, instDir0, configPy, dbFiles, appState, testConfig,
             config, pyfileRead, mkdirErr>>

ctxVars == <<nctx, kind, pc, g, conns, ret, first, calls, exc, output, response, op>>

vars == <<appVars, ctxVars>>

\* ------------------------------------------------------------ create_app
\* os.makedirs(path): the exception it raises in each state of the path.
makedirs_error(dir) ==
    CASE dir = "absent"  -> "none"
      [] dir = "present" -> "FileExistsError"
      [] dir = "denied"  -> "PermissionError"
      [] dir = "notdir"  -> "NotADirectoryError"

\* A factory without the try/except around os.makedirs.
HandledByExcept_none(err) == FALSE

\* except OSError: every one of these is a subclass of OSError.
HandledByExcept(err) ==
    err \in {"FileExistsError", "PermissionError", "NotADirectoryError"}

\* app.config.from_pyfile('config.py', silent=True): the outcome.
from_pyfile_raises(py) == py.state = "broken"

from_pyfile(cfg, py) ==
    IF py.state = "ok" THEN from_mapping(cfg, py.map) ELSE cfg

\* A factory that loads config.py first whether or not test_config is given.
LoadConfig_pyfile_always(tc, py) ==
    IF tc.none THEN from_pyfile(Defaults, py)
    ELSE from_mapping(from_pyfile(Defaults, py), tc.map)

\* The config after the if/else of create_app (lines 63-68).
LoadConfig(tc, py) ==
    IF tc.none THEN from_pyfile(Defaults, py) ELSE from_mapping(Defaults, tc.map)

CreateApp(tc) ==
    /\ appState = "none"
    /\ testConfig' = tc
    /\ pyfileRead' = tc.none
    /\ IF tc.none /\ from_pyfile_raises(configPy)
       THEN /\ appState' = "raised"
            /\ config' = Defaults
            /\ UNCHANGED <<instDir, mkdirErr>>
       ELSE /\ config' = LoadConfig(tc, configPy)
            /\ mkdirErr' = makedirs_error(instDir)
            /\ instDir' = IF instDir = "absent" THEN "present" ELSE instDir
            /\ appState' = IF mkdirErr' = "none" \/ HandledByExcept(mkdirErr')
                           THEN "created" ELSE "raised"
    /\ op' = <<op[2], "create_app">>
    /\ UNCHANGED <<instDir0, configPy, dbFiles>>
    /\ UNCHANGED <<nctx, kind, pc, g, conns, ret, first, calls, exc, output, response>>

\* ---------------------------------------------------------------- db.py
\* sqlite3.connect(path) opens the file at once: it succeeds when the
\* directory holding the path exists and raises OperationalError otherwise.
\* The default path lies in the instance directory.
CanOpen(path) == path = DefaultDatabase => instDir = "present"

\* A get_db without the "'db' not in g" test: it connects on every call.
get_db_no_check(c) ==
    IF CanOpen(config["DATABASE"])
    THEN /\ conns' = Append(conns, [ctx |-> c, path |-> config["DATABASE"],
                                    closes |-> 0, row_factory |-> "Row"])
         /\ g' = [g EXCEPT ![c] = Len(conns) + 1]
         /\ ret' = [ret EXCEPT ![c] = Len(conns) + 1]
         /\ UNCHANGED exc
    ELSE /\ exc' = [exc EXCEPT ![c] = "OperationalError"]
         /\ UNCHANGED <<conns, g, ret>>

\* get_db() in context c (db.py lines 59-67).
get_db(c) ==
    IF g[c] = NoDb
    THEN IF CanOpen(config["DATABASE"])
         THEN /\ conns' = Append(conns, [ctx |-> c, path |-> config["DATABASE"],
                                         closes |-> 0, row_factory |-> "Row"])
              /\ g' = [g EXCEPT ![c] = Len(conns) + 1]
              /\ ret' = [ret EXCEPT ![c] = Len(conns) + 1]
              /\ UNCHANGED exc
         ELSE /\ exc' = [exc EXCEPT ![c] = "OperationalError"]
              /\ UNCHANGED <<conns, g, ret>>
    ELSE /\ ret' = [ret EXCEPT ![c] = g[c]]
         /\ UNCHANGED <<conns, g, exc>>

\* A close_db that closes only when the context ended without an exception.
close_db_skip_on_error(c, e) ==
    /\ g' = [g EXCEPT ![c] = NoDb]
    /\ conns' = IF g[c] # NoDb /\ e = "none"
                THEN [conns EXCEPT ![g[c]].closes = @ + 1] ELSE conns

\* A close_db that reads g.get('db') and leaves the entry in g.
close_db_keep(c, e) ==
    /\ g' = g
    /\ conns' = IF g[c] # NoDb THEN [conns EXCEPT ![g[c]].closes = @ + 1] ELSE conns

\* A close_db that pops the entry and never calls db.close().
close_db_leak(c, e) ==
    /\ g' = [g EXCEPT ![c] = NoDb]
    /\ conns' = conns

\* close_db(e) in context c (db.py lines 70-74); closes counts db.close() calls.
close_db(c, e) ==
    /\ g' = [g EXCEPT ![c] = NoDb]
    /\ conns' = IF g[c] # NoDb THEN [conns EXCEPT ![g[c]].closes = @ + 1] ELSE conns

\* db.execute in place of db.executescript: only the first statement runs.
executescript_first(c, db) ==
    /\ dbFiles' = [dbFiles EXCEPT ![conns[db].path] = @ \cup {1}]
    /\ UNCHANGED exc

\* db.executescript(script) on connection db: the statements of schema.sql run
\* in order.  On a fresh database file every statement executes; on a file
\* that already holds tables a statement may fail (a CREATE TABLE of a table
\* that exists), which raises and leaves the statements before it executed.
executescript(c, db) ==
    \/ /\ dbFiles' = [dbFiles EXCEPT ![conns[db].path] = @ \cup Stmts]
       /\ UNCHANGED exc
    \/ /\ dbFiles[conns[db].path] # {}
       /\ \E bad \in Stmts :
             dbFiles' = [dbFiles EXCEPT ![conns[db].path] = @ \cup (1..(bad - 1))]
       /\ exc' = [exc EXCEPT ![c] = "OperationalError"]

\* click.echo('Initialized the database.')
Message == "Initialized the database."

echo(c) == output' = [output EXCEPT ![c] = Append(@, Message)]

\* A /hello view that opens the database before answering.
hello_db(c) ==
    /\ response' = [response EXCEPT ![c] = "Hello, World"]
    /\ get_db(c)

\* The view function of /hello (__init__.py lines 77-79).
hello(c) ==
    /\ response' = [response EXCEPT ![c] = "Hello, World"]
    /\ UNCHANGED <<g, conns, ret, exc>>

\* ------------------------------------------------- application contexts
Ended(c) == IF exc'[c] # "none" THEN "ended" ELSE "run"

\* The framework pushes an application context, with a new g, for a request
\* to /hello, for a view that uses the database, or for `flask init-db`.
\* Requests and commands are handled one after the other.
PushContext(k) ==
    /\ appState = "created"
    /\ nctx < MaxCtx
    /\ nctx > 0 => pc[nctx] = "done"
    /\ nctx' = nctx + 1
    /\ kind' = [kind EXCEPT ![nctx + 1] = k]
    /\ pc' = [pc EXCEPT ![nctx + 1] = "run"]
    /\ g' = [g EXCEPT ![nctx + 1] = NoDb]
    /\ op' = <<op[2], "push">>
    /\ UNCHANGED <<appVars, conns, ret, first, calls, exc, output, response>>

HelloRequest(c) ==
    /\ kind[c] = "hello" /\ pc[c] = "run"
    /\ hello(c)
    /\ pc' = [pc EXCEPT ![c] = "ended"]
    /\ op' = <<op[2], "hello">>
    /\ UNCHANGED <<appVars, nctx, kind, first, calls, output>>

\* Code running in context c calls get_db().
CallGetDb(c) ==
    /\ kind[c] = "view" /\ pc[c] = "run" /\ calls[c] < MaxCalls
    /\ get_db(c)
    /\ calls' = [calls EXCEPT ![c] = @ + 1]
    /\ first' = IF calls[c] = 0 THEN [first EXCEPT ![c] = ret'[c]] ELSE first
    /\ pc' = [pc EXCEPT ![c] = Ended(c)]
    /\ op' = <<op[2], "get_db">>
    /\ UNCHANGED <<appVars, nctx, kind, output, response>>

\* Code running in context c calls close_db() itself.
CallCloseDb(c) ==
    /\ kind[c] = "view" /\ pc[c] = "run" /\ calls[c] < MaxCalls
    /\ close_db(c, "none")
    /\ calls' = [calls EXCEPT ![c] = @ + 1]
    /\ op' = <<op[2], "close_db">>
    /\ UNCHANGED <<appVars, nctx, kind, pc, ret, first, exc, output, response>>

\* The view returns (e = "none") or raises e.
ViewEnd(c, e) ==
    /\ kind[c] = "view" /\ pc[c] = "run"
    /\ exc' = [exc EXCEPT ![c] = e]
    /\ pc' = [pc EXCEPT ![c] = "ended"]
    /\ op' = <<op[2], "end">>
    /\ UNCHANGED <<appVars, nctx, kind, g, conns, ret, first, calls, output, response>>

\* init_db(), first statement: db = get_db()  (db.py line 78).
CmdGetDb(c) ==
    /\ kind[c] = "cli" /\ pc[c] = "run"
    /\ get_db(c)
    /\ calls' = [calls EXCEPT ![c] = @ + 1]
    /\ first' = [first EXCEPT ![c] = ret'[c]]
    /\ pc' = [pc EXCEPT ![c] = IF exc'[c] # "none" THEN "ended" ELSE "gotdb"]
    /\ op' = <<op[2], "get_db">>
    /\ UNCHANGED <<appVars, nctx, kind, output, response>>

\* init_db(), the with block: db.executescript(...)  (db.py lines 80-81).
CmdExecScript(c) ==
    /\ kind[c] = "cli" /\ pc[c] = "gotdb"
    /\ executescript(c, ret[c])
    /\ pc' = [pc EXCEPT ![c] = IF exc'[c] # "none" THEN "ended" ELSE "inited"]
    /\ op' = <<op[2], "executescript">>
    /\ UNCHANGED <<instDir, instDir0, configPy, appState, testConfig, config,
                   pyfileRead, mkdirErr>>
    /\ UNCHANGED <<nctx, kind, g, conns, ret, first, calls, output, response>>

\* init_db_command(), after init_db() returned  (db.py line 88).
CmdEcho(c) ==
    /\ kind[c] = "cli" /\ pc[c] = "inited"
    /\ echo(c)
    /\ pc' = [pc EXCEPT ![c] = "ended"]
    /\ op' = <<op[2], "echo">>
    /\ UNCHANGED <<appVars, nctx, kind, g, conns, ret, first, calls, exc, response>>

\* The context is popped: the functions registered with teardown_appcontext
\* run with the exception that ended the code, if any  (db.py line 97).
PopContext(c) ==
    /\ pc[c] = "ended"
    /\ close_db(c, exc[c])
    /\ pc' = [pc EXCEPT ![c] = "done"]
    /\ op' = <<op[2], "teardown">>
    /\ UNCHANGED <<appVars, nctx, kind, ret, first, calls, exc, output, response>>

Init ==
    /\ instDir \in InstStates
    /\ instDir0 = instDir
    /\ configPy \in IF instDir = "present" THEN ConfigPyFiles
                    ELSE {[state |-> "absent", map |-> EmptyMap]}
    /\ dbFiles = [p \in {DefaultDatabase, TestValue("DATABASE")} |-> {}]
    /\ appState = "none"
    /\ testConfig = [none |-> TRUE, map |-> EmptyMap]
    /\ config = EmptyMap
    /\ pyfileRead = FALSE
    /\ mkdirErr = "none"
    /\ nctx = 0
    /\ kind = [c \in Ctxs |-> ""]
    /\ pc = [c \in Ctxs |-> "idle"]
    /\ g = [c \in Ctxs |-> NoDb]
    /\ conns = <<>>
    /\ ret = [c \in Ctxs |-> NoDb]
    /\ first = [c \in Ctxs |-> NoDb]
    /\ calls = [c \in Ctxs |-> 0]
    /\ exc = [c \in Ctxs |-> "none"]
    /\ output = [c \in Ctxs |-> <<>>]
    /\ response = [c \in Ctxs |-> ""]
    /\ op = <<"init", "init">>

\* The application as create_app wires it: close_db runs only as the teardown.
Next ==
    \/ \E tc \in TestConfigs : CreateApp(tc)
    \/ \E k \in {"hello", "view", "cli"} : PushContext(k)
    \/ \E c \in Ctxs : HelloRequest(c)
    \/ \E c \in Ctxs : CallGetDb(c)
    \/ \E c \in Ctxs : \E e \in {"none", "ViewError"} : ViewEnd(c, e)
    \/ \E c \in Ctxs : CmdGetDb(c)
    \/ \E c \in Ctxs : CmdExecScript(c)
    \/ \E c \in Ctxs : CmdEcho(c)
    \/ \E c \in Ctxs : PopContext(c)

Spec == Init /\ [][Next]_vars

\* The helper as a module: code in a context calls get_db and close_db in any
\* order before the context is popped.
NextApi ==
    \/ \E tc \in TestConfigs : CreateApp(tc)
    \/ PushContext("view")
    \/ \E c \in Ctxs : CallGetDb(c)
    \/ \E c \in Ctxs : CallCloseDb(c)
    \/ \E c \in Ctxs : \E e \in {"none", "ViewError"} : ViewEnd(c, e)
    \/ \E c \in Ctxs : PopContext(c)

SpecApi == Init /\ [][NextApi]_vars

\* ================================================================ claims
ConnsOf(c) == {i \in DOMAIN conns : conns[i].ctx = c}
IsOpen(i) == conns[i].closes = 0
Finished(c) == pc[c] \in {"ended", "done"}

\* C1: within one request every get_db call after the first returns the
\* connection the first call opened, with one sqlite3.connect per context;
\* a later request's get_db returns a connection no earlier request used.
C1_OneConnectionPerRequest ==
    \A c \in Ctxs :
        /\ calls[c] >= 1 => ret[c] = first[c]
        /\ Cardinality(ConnsOf(c)) <= 1
        /\ \A d \in Ctxs :
              (d < c /\ ret[c] # NoDb) => (ret[c] # ret[d] /\ ret[c] \notin ConnsOf(d))

C1_Witness ==
    \E c \in Ctxs :
        /\ c > 1 /\ ret[c - 1] # NoDb
        /\ kind[c] = "view" /\ calls[c] >= 2 /\ ret[c] # NoDb

\* C2: once the teardown of a context has run, the connection get_db opened
\* in it is closed and g holds no 'db', whether the code returned or raised.
C2_ClosedAtTeardown ==
    \A c \in Ctxs :
        pc[c] = "done" => (g[c] = NoDb /\ \A i \in ConnsOf(c) : conns[i].closes = 1)

C2_Witness ==
    \E c, d \in Ctxs :
        /\ pc[c] = "done" /\ exc[c] = "none" /\ ConnsOf(c) # {}
        /\ pc[d] = "done" /\ exc[d] = "ViewError" /\ ConnsOf(d) # {}

\* C3: get_db opens a connection only when g holds none and otherwise changes
\* nothing; close_db with no connection in g closes nothing, raises nothing
\* and leaves g as it is; a connection is closed exactly once however often
\* close_db is called.
C3_Idempotent ==
    [][LET c == nctx
           closing == op'[2] \in {"close_db", "teardown"}
       IN  /\ (op'[2] = "get_db" /\ g[c] # NoDb) =>
                 (g' = g /\ conns' = conns /\ exc' = exc /\ ret'[c] = g[c])
           /\ (op'[2] = "get_db" /\ g[c] = NoDb /\ exc'[c] = "none") =>
                 (/\ Len(conns') = Len(conns) + 1
                  /\ g'[c] = Len(conns') /\ ret'[c] = Len(conns')
                  /\ \A i \in DOMAIN conns : conns'[i] = conns[i])
           /\ (closing /\ g[c] = NoDb) => (g' = g /\ conns' = conns /\ exc' = exc)
           /\ (closing /\ g[c] # NoDb) =>
                 (g'[c] = NoDb /\ conns'[g[c]].closes = 1 /\ exc' = exc)
           /\ \A i \in DOMAIN conns' : conns'[i].closes <= 1]_vars

C3_Witness ==
    /\ op = <<"close_db", "close_db">>
    /\ first[nctx] # NoDb
    /\ conns[first[nctx]].closes = 1
    /\ g[nctx] = NoDb

\* C4 as amended: with a test_config mapping, every upper-case key of it is
\* in the config with test_config's value, and SECRET_KEY and DATABASE keep
\* their defaults when test_config does not name them.
C4_UpperKeysOverride ==
    (appState # "none" /\ ~testConfig.none) =>
        /\ appState = "created"
        /\ \A k \in DOMAIN testConfig.map :
              IsUpper(k) => (k \in DOMAIN config /\ config[k] = testConfig.map[k])
        /\ "SECRET_KEY" \notin DOMAIN testConfig.map => config["SECRET_KEY"] = "dev"
        /\ "DATABASE" \notin DOMAIN testConfig.map => config["DATABASE"] = DefaultDatabase

C4_Witness ==
    /\ appState = "created" /\ ~testConfig.none
    /\ DOMAIN testConfig.map = {"DATABASE", "debug"}

\* C4 as stated: every key of test_config is in the config with its value.
C4_EveryKeyOverrides ==
    (appState # "none" /\ ~testConfig.none) =>
        /\ appState = "created"
        /\ \A k \in DOMAIN testConfig.map :
              k \in DOMAIN config /\ config[k] = testConfig.map[k]
        /\ "SECRET_KEY" \notin DOMAIN testConfig.map => config["SECRET_KEY"] = "dev"
        /\ "DATABASE" \notin DOMAIN testConfig.map => config["DATABASE"] = DefaultDatabase

\* Whether create_app(None) ran with the instance directory absent or present.
NoTestConfigRun ==
    appState # "none" /\ testConfig.none /\ instDir0 \in {"absent", "present"}

C6_OnlyExistsSuppressed ==
    appState = "created" => mkdirErr \in {"none", "FileExistsError"}

\* C7: init-db on a fresh database file executes every statement of
\* schema.sql on the file at the configured DATABASE path and then prints the
\* confirmation; nothing is printed unless the script ran without raising;
\* the connection is closed once the command's context is torn down.
FreshAtStart(c) == \A d \in Ctxs : d < c => kind[d] # "cli"

C7_InitDbCommand ==
    \A c \in Ctxs :
        kind[c] = "cli" =>
            /\ output[c] # <<>> =>
                  (/\ output[c] = <<Message>>
                   /\ exc[c] = "none"
                   /\ conns[ret[c]].path = config["DATABASE"]
                   /\ dbFiles[config["DATABASE"]] = Stmts)
            /\ exc[c] # "none" => output[c] = <<>>
            /\ (Finished(c) /\ FreshAtStart(c) /\ CanOpen(config["DATABASE"])) =>
                  (output[c] = <<Message>> /\ dbFiles[config["DATABASE"]] = Stmts)
            /\ pc[c] = "done" =>
                  (g[c] = NoDb /\ \A i \in ConnsOf(c) : ~IsOpen(i))

C7_Witness ==
    \E c \in Ctxs :
        /\ kind[c] = "cli" /\ pc[c] = "done" /\ FreshAtStart(c)
        /\ output[c] = <<Message>>
        /\ config["DATABASE"] # DefaultDatabase
        /\ dbFiles[DefaultDatabase] = {}

\* C8: a request to /hello answers 'Hello, World' and opens no database
\* connection, for every app create_app returns.
C8_Hello ==
    \A c \in Ctxs :
        (kind[c] = "hello" /\ Finished(c)) =>
            /\ response[c] = "Hello, World"
            /\ exc[c] = "none"
            /\ ConnsOf(c) = {} /\ g[c] = NoDb

C8_Witness ==
    \E c \in Ctxs :
        /\ kind[c] = "hello" /\ pc[c] = "done"
        /\ instDir0 = "absent" /\ ~testConfig.none

\* C9: defaults are set first; with test_config None the instance config.py
\* is loaded on top when it exists and skipped when it does not; with a
\* test_config, test_config is applied on top and config.py is never read, so
\* no value of config.py is in the config.
C9_ConfigOrder ==
    appState = "created" =>
        /\ pyfileRead = testConfig.none
        /\ testConfig.none =>
              /\ config["DATABASE"] = DefaultDatabase
              /\ config["SECRET_KEY"] =
                    IF "SECRET_KEY" \in DOMAIN configPy.map THEN "prod-key" ELSE "dev"
        /\ ~testConfig.none =>
              /\ config["SECRET_KEY"] =
                    IF "SECRET_KEY" \in DOMAIN testConfig.map THEN "test-key" ELSE "dev"
              /\ config["DATABASE"] =
                    IF "DATABASE" \in DOMAIN testConfig.map
                    THEN "tmp/test.sqlite" ELSE DefaultDatabase
              /\ \A k \in DOMAIN config : config[k] # PyValue(k)

C9_Witness ==
    /\ appState = "created" /\ ~testConfig.none
    /\ configPy.state = "ok" /\ "SECRET_KEY" \in DOMAIN configPy.map
    /\ "SECRET_KEY" \notin DOMAIN testConfig.map

\* C10: over any sequence of get_db and close_db calls in a context, a
\* connection held in g is open, get_db returns an open connection (a new one
\* after close_db), and at most one connection of the context is open.
C10_HeldConnectionOpen ==
    \A c \in Ctxs :
        /\ g[c] # NoDb => (g[c] \in ConnsOf(c) /\ IsOpen(g[c]))
        /\ Cardinality({i \in ConnsOf(c) : IsOpen(i)}) <= 1
        /\ (c = nctx /\ op[2] = "get_db" /\ exc[c] = "none") =>
              (ret[c] # NoDb /\ ret[c] = g[c] /\ IsOpen(ret[c]))
        /\ (c = nctx /\ op = <<"close_db", "get_db">> /\ exc[c] = "none") =>
              (ret[c] = Len(conns) /\ \A i \in ConnsOf(c) \ {ret[c]} : ~IsOpen(i))

C10_Witness ==
    /\ op = <<"close_db", "get_db">>
    /\ exc[nctx] = "none"
    /\ Cardinality(ConnsOf(nctx)) = 2
    /\ IsOpen(ret[nctx])
====
